---------------------------- MODULE Spec2Model ----------------------------
(***************************************************************************)
(* Model of the MCP Upstox server (src/mcp-cursor-integration.js, the      *)
(* server part from line 717 on): the OAuth2 token state, its token file,  *)
(* the SDK client's token, and the HTTP requests that run through          *)
(* requireAuth / ensureValidToken, /callback and /logout; and the handler  *)
(* of POST /strategy/mcp with calculateMCP; the handler of POST            *)
(* /mcp/calculate; and callMCPServer of the command-line client            *)
(* (src/mcp-claude-integration.js).                                        *)
(*                                                                         *)
(* Node runs one handler at a time until it reaches an await, so every     *)
(* action below is one such run: from the arrival of a request (or of the  *)
(* response it awaits) to the next await or to the HTTP response.          *)
(* Time is counted in minutes.  Writes of the token file are taken to      *)
(* succeed.                                                                *)
(***************************************************************************)
EXTENDS Integers, FiniteSets, Sequences, Bags, TLC

\* ----- bounds of the model ------------------------------------------------
MaxReqs == 2          \* requests that wait for the token endpoint at once
MaxTime == 3          \* the clock stops advancing here
NumTokens == 2        \* distinct token pairs the authorization server issues
MaxLen == 4           \* every price series up to this length is an input
MaxSymbols == 3       \* symbols in one batch request
MaxAttempts == 5      \* the client sends one request at most this often
MaxIssued == 3        \* token pairs the authorization server issues in RotationSpec
MaxMenus == 3         \* menu choices made in one run of the command-line client

\* ----- program constants --------------------------------------------------
Absent == 0           \* null / undefined / missing JSON field
FiveMinutes == 5      \* 5 * 60 * 1000 ms

\* expires_in values (minutes) the authorization server answers with
ExpiresIn == {1, 6}

TokenIds == 1..NumTokens

\* the token pair number n of the authorization server
AccessTok(n) == 2 * n - 1
RefreshTok(n) == 2 * n

\* routes registered with requireAuth
AuthKinds == {"historical", "calculate", "trade", "positions", "strategy"}

\* why a POST to the token endpoint ends in the catch block
FailReasons == {"transient", "invalid_grant", "malformed"}

VARIABLES
    authState,      \* let authState = {accessToken, refreshToken, expiresAt, isAuthenticated}
    tokenFile,      \* content of token.json
    upstoxClient,   \* upstoxClient.authentications['OAUTH2'].accessToken
    now,            \* the wall clock
    req,            \* the bag of requests awaiting the token endpoint (the route
                    \* behind a waiting requireAuth is not recorded: next() runs
                    \* whichever handler the route has)
    last,           \* history: what the last handler run did: result of
                    \* ensureValidToken, HTTP status answered, next() called
    lastCheckValid, \* history: "access token present and not expired" at the last check
    loggedOut,      \* history: /logout ran and no /callback exchange succeeded since
    permRejected,   \* history: a refresh was answered invalid_grant, no login since
    \* one run of the POST /strategy/mcp handler, after requireAuth called next()
    pc,             \* where the handler is: the SDK call it awaits, or "done"
    investmentAmount, \* req.body.investmentAmount
    dataPoints,     \* the close prices of the candles; a point's timestamp is its index
    mcp,            \* const mcp = calculateMCP(dataPoints)
    currentPrice,   \* quoteResponse.data[symbol].last_price
    action,         \* let action = null
    orderPrice,     \* let orderPrice = null
    quantity,       \* const quantity = Math.floor(investmentAmount / currentPrice)
    calls,          \* the SDK calls the handler has issued, in order
    res,            \* the HTTP response of the handler
    \* one run of the POST /mcp/calculate handler, after requireAuth called next()
    symbols,        \* req.body.symbols: the symbols are numbered 1..symbols
    fetching,       \* the symbols whose getHistoricalCandleData call is awaited
    fetches,        \* history: the symbols fetched, in the order of the calls
    candles,        \* history: the series received for each symbol
    results,        \* const results = {}
    batchRes,       \* the status of the HTTP response of the handler
    \* one call of callMCPServer of the client
    isAuthenticated, \* let isAuthenticated = false
    clientPc,       \* the request the client awaits, or "done"
    attempts,       \* history: how often axios(config) has sent the request
    answers,        \* history: the HTTP statuses the client has received
    returned,       \* what callMCPServer returned
    \* the authorization server
    issued,         \* history: the number of the token pair it issued last
    \* the trading command-line client (the first script of the source file)
    cliAuthenticated, \* let isAuthenticated = false
    cliPc,          \* the answer the script awaits: of the server, or the menu choice
    cliProbe,       \* history: the status that answered the last authentication check
    cliMenus,       \* history: the number of menu choices made
    cliGated        \* history: the server calls issued by the gated operations

sessionVars == <<authState, tokenFile, upstoxClient, now, req,
                 last, lastCheckValid, loggedOut, permRejected>>

strategyVars == <<pc, investmentAmount, dataPoints, mcp, currentPrice,
                  action, orderPrice, quantity, calls, res>>

batchVars == <<symbols, fetching, fetches, candles, results, batchRes>>

clientVars == <<isAuthenticated, clientPc, attempts, answers, returned>>

serverVars == <<issued>>

cliVars == <<cliAuthenticated, cliPc, cliProbe, cliMenus, cliGated>>

vars == <<sessionVars, strategyVars, batchVars, clientVars, serverVars, cliVars>>

\* ----- token state and token file ----------------------------------------
NullAuth ==
    [accessToken |-> Absent, refreshToken |-> Absent,
     expiresAt |-> Absent, isAuthenticated |-> FALSE]

NoFile == [kind |-> "nofile", data |-> NullAuth]
EmptyFile == [kind |-> "empty", data |-> NullAuth]

\* variant: the file write is skipped for a non-empty state
saveTokenData_NotWritten(a) == [kind |-> "empty", data |-> NullAuth]

\* fs.writeFileSync(TOKEN_FILE_PATH, JSON.stringify(authState, null, 2))
saveTokenData(a) == [kind |-> "data", data |-> a]

\* variant: the refresh token is not read back
LoadAuth_NoRefreshToken(f, t) ==
    IF f.kind = "nofile"
    THEN NullAuth
    ELSE [accessToken |-> f.data.accessToken,
          refreshToken |-> Absent,
          expiresAt |-> f.data.expiresAt,
          isAuthenticated |-> (f.data.accessToken # Absent /\ f.data.expiresAt > t)]

\* the startup block: authState after reading token.json at time t
LoadAuth(f, t) ==
    IF f.kind = "nofile"
    THEN NullAuth
    ELSE [accessToken |-> f.data.accessToken,
          refreshToken |-> f.data.refreshToken,
          expiresAt |-> f.data.expiresAt,
          isAuthenticated |-> (f.data.accessToken # Absent /\ f.data.expiresAt > t)]

\* variant: the startup block leaves the SDK client without a token
LoadClient_Unset(f, t) == Absent

\* the startup block: the SDK client's token
LoadClient(f, t) ==
    IF LoadAuth(f, t).isAuthenticated THEN LoadAuth(f, t).accessToken ELSE Absent

\* variant: expiresAt taken as expires_in, without Date.now()
TokenResponse_NoClock(n, e, t) ==
    [accessToken |-> AccessTok(n), refreshToken |-> RefreshTok(n),
     expiresAt |-> e, isAuthenticated |-> TRUE]

\* the authState built from a token endpoint response received at time t
TokenResponse(n, e, t) ==
    [accessToken |-> AccessTok(n), refreshToken |-> RefreshTok(n),
     expiresAt |-> t + e, isAuthenticated |-> TRUE]

\* variant: the expiry comparison is reversed
ensureValidToken_Reversed(a, t) ==
    IF a.refreshToken = Absent \/ a.expiresAt = Absent THEN "notoken"
    ELSE IF a.expiresAt < t + FiveMinutes THEN "fast"
    ELSE "refresh"

\* variant: the missing-token test is left out
ensureValidToken_NoGuard(a, t) ==
    IF a.expiresAt > t + FiveMinutes THEN "fast" ELSE "refresh"

\* variant: a token exactly five minutes from expiry takes the fast path
ensureValidToken_Inclusive(a, t) ==
    IF a.refreshToken = Absent \/ a.expiresAt = Absent THEN "notoken"
    ELSE IF a.expiresAt >= t + FiveMinutes THEN "fast"
    ELSE "refresh"

\* ----- ensureValidToken up to its await ----------------------------------
ensureValidToken(a, t) ==
    IF a.refreshToken = Absent \/ a.expiresAt = Absent THEN "notoken"
    ELSE IF a.expiresAt > t + FiveMinutes THEN "fast"
    ELSE "refresh"

\* "access token present and expiresAt in the future"
TokenLive(a, t) == a.accessToken # Absent /\ a.expiresAt > t

\* ----- requests -----------------------------------------------------------
\* a request inside ensureValidToken, awaiting axios.post; at: the time it
\* read the clock (const now = new Date())
Refreshing(t) == [pc |-> "refreshing", at |-> t]

\* a /callback request awaiting axios.post
Exchanging == [pc |-> "exchanging", at |-> 0]

One(q) == SetToBag({q})
Waiting == BagToSet(req)

NoLast == [route |-> "none", auth |-> "none", status |-> 0, next |-> FALSE]

\* the handler run ended in an await of the token endpoint: nothing answered yet
Awaiting(route) == [route |-> route, auth |-> "pending", status |-> 0, next |-> FALSE]

\* variant: /trade registered without requireAuth
Guarded_TradeOpen(kind) == kind \in AuthKinds \ {"trade"}

\* routes whose handler runs behind requireAuth
Guarded(kind) == kind \in AuthKinds

\* requireAuth's else branch: res.status(401)
Unauthenticated(why) ==
    [route |-> "api", auth |-> why, status |-> 401, next |-> FALSE]

\* requireAuth's then branch: next(), the route handler runs and issues its
\* SDK calls
CallNext(how) == [route |-> "api", auth |-> how, status |-> 0, next |-> TRUE]

\* ----- calculateMCP --------------------------------------------------------
\* A series is the sequence of its close prices; the timestamp of a point is
\* its position (candles are taken in chronological order).  Prices are whole
\* numbers, so every comparison of quotients below is made exactly, by
\* multiplying out the divisor.

\* close prices of the candles
Prices == {999, 1000, 1001, 1002}

\* the series of the scenario
Scenario == <<100, 105, 95, 102, 100, 101>>

\* every series of at most MaxLen points
ShortSeries == UNION {[1..n -> Prices] : n \in 0..MaxLen}

\* series of eleven and twelve points: one or two points, then five times one
\* price and five times another
LongSeries ==
    {head \o [i \in 1..10 |-> IF i <= 5 THEN b ELSE c] :
        head \in [1..1 -> Prices] \cup [1..2 -> Prices], b \in Prices, c \in Prices}

\* the series of the quantity scenario: a pivot at 17880, near 17870
QuantityScenario == <<17860, 17880>>

\* candle series the market-data provider answers with
Series == ShortSeries \cup LongSeries \cup {Scenario, QuantityScenario}

\* last_price values the quote answers with
LastPrices == {994, 995, 1000, 1001, 1005, 1006, 17870}

\* req.body.investmentAmount
Investments == {-500, 500, 3000, 100000}

\* null
NoMcp == [timestamp |-> 0, price |-> 0, connections |-> 0]
NoAction == "null"

Abs(x) == IF x < 0 THEN -x ELSE x

\* dataPoints.reduce((acc, point) => acc + point.price, 0)
RECURSIVE SumPrices(_)
SumPrices(pts) == IF pts = <<>> THEN 0 ELSE Head(pts) + SumPrices(Tail(pts))

\* variant: a price equal to the average counts as above it
AboveAvg_Inclusive(pts, i) == pts[i] * Len(pts) >= SumPrices(pts)

\* dataPoints[i].price > avgPrice, with avgPrice = sum / dataPoints.length
AboveAvg(pts, i) == pts[i] * Len(pts) > SumPrices(pts)

\* for (let i = 1; ...): the second point, counting from 1
FirstIndex == 2

\* variant: the loop never updates aboveAvg
RECURSIVE PivotPoints_NoUpdate(_, _, _)
PivotPoints_NoUpdate(pts, i, aboveAvg) ==
    IF i > Len(pts) THEN <<>>
    ELSE IF AboveAvg(pts, i) # aboveAvg
         THEN <<[timestamp |-> i, price |-> pts[i]]>>
                 \o PivotPoints_NoUpdate(pts, i + 1, aboveAvg)
         ELSE PivotPoints_NoUpdate(pts, i + 1, aboveAvg)

\* the for loop from point i on, with the tracked flag aboveAvg
RECURSIVE PivotPoints(_, _, _)
PivotPoints(pts, i, aboveAvg) ==
    IF i > Len(pts) THEN <<>>
    ELSE IF AboveAvg(pts, i) # aboveAvg
         THEN <<[timestamp |-> i, price |-> pts[i]]>>
                 \o PivotPoints(pts, i + 1, AboveAvg(pts, i))
         ELSE PivotPoints(pts, i + 1, aboveAvg)

\* variant: a point exactly 0.1% away is not connected
Connected_Strict(pivotPrice, pointPrice) ==
    IF pivotPrice > 0 THEN 1000 * Abs(pivotPrice - pointPrice) < pivotPrice
    ELSE pivotPrice < 0

\* Math.abs(pivot.price - point.price) / pivot.price <= 0.001
\* (a negative pivot price makes the quotient negative or -0; a zero pivot
\* price makes it NaN or Infinity)
Connected(pivotPrice, pointPrice) ==
    IF pivotPrice > 0 THEN 1000 * Abs(pivotPrice - pointPrice) <= pivotPrice
    ELSE pivotPrice < 0

\* dataPoints.forEach(point => ... connectionCount++)
ConnectionCount(pts, pivotPrice) ==
    Cardinality({i \in 1..Len(pts) : Connected(pivotPrice, pts[i])})

\* pivotPoints.map(pivot => ({...pivot, connections: connectionCount}))
Connections(pts, pivots) ==
    [k \in 1..Len(pivots) |->
        [timestamp |-> pivots[k].timestamp, price |-> pivots[k].price,
         connections |-> ConnectionCount(pts, pivots[k].price)]]

\* variant: an element is placed before the elements it compares equal to
RECURSIVE Insert_BeforeEqual(_, _)
Insert_BeforeEqual(sorted, x) ==
    IF sorted = <<>> THEN <<x>>
    ELSE IF Head(sorted).connections - x.connections < 0
              \/ Head(sorted).connections - x.connections = 0
         THEN <<x>> \o sorted
         ELSE <<Head(sorted)>> \o Insert_BeforeEqual(Tail(sorted), x)

\* Array.prototype.sort is stable: x goes after every element that the
\* comparator (a, b) => b.connections - a.connections does not put behind it
RECURSIVE Insert(_, _)
Insert(sorted, x) ==
    IF sorted = <<>> THEN <<x>>
    ELSE IF Head(sorted).connections - x.connections < 0
         THEN <<x>> \o sorted
         ELSE <<Head(sorted)>> \o Insert(Tail(sorted), x)

\* connections.sort((a, b) => b.connections - a.connections)
RECURSIVE Sort(_, _)
Sort(conns, k) ==
    IF k = 0 THEN <<>> ELSE Insert(Sort(conns, k - 1), conns[k])

\* variant: a single candidate is not returned
MostConnected_NeedsTwo(sorted) ==
    IF Len(sorted) > 1 THEN sorted[1] ELSE NoMcp

\* variant: the least connected pivot is returned
MostConnected_Last(sorted) ==
    IF Len(sorted) > 0 THEN sorted[Len(sorted)] ELSE NoMcp

\* connections.length > 0 ? connections[0] : null
MostConnected(sorted) ==
    IF Len(sorted) > 0 THEN sorted[1] ELSE NoMcp

\* variant: the tracked flag starts as below, whatever the first point is
Candidates_StartsBelow(pts) ==
    Connections(pts, PivotPoints(pts, FirstIndex, FALSE))

\* the pivot candidates of a non-empty series, with their connection counts
Candidates(pts) ==
    Connections(pts, PivotPoints(pts, FirstIndex, AboveAvg(pts, 1)))

calculateMCP(pts) ==
    IF Len(pts) = 0 THEN NoMcp
    ELSE MostConnected(Sort(Candidates(pts), Len(Candidates(pts))))

\* ----- POST /strategy/mcp: the decision -----------------------------------
\* variant: a deviation of exactly 0.5% is not near
NearMCP_Strict(price, pivotPrice) ==
    IF pivotPrice > 0 THEN 1000 * Abs(price - pivotPrice) < 5 * pivotPrice
    ELSE pivotPrice < 0

\* mcpDeviation <= 0.005, with
\* mcpDeviation = Math.abs(currentPrice - mcp.price) / mcp.price
NearMCP(price, pivotPrice) ==
    IF pivotPrice > 0 THEN 1000 * Abs(price - pivotPrice) <= 5 * pivotPrice
    ELSE pivotPrice < 0

\* variant: the average is taken over the whole series
RecentPoints_All(pts) == pts

\* dataPoints.slice(-10)
RecentPoints(pts) ==
    SubSeq(pts, IF Len(pts) > 10 THEN Len(pts) - 9 ELSE 1, Len(pts))

\* currentPrice > avgRecentPrice, with
\* avgRecentPrice = recentPoints.reduce(...) / recentPoints.length
AboveRecent(price, pts) ==
    price * Len(RecentPoints(pts)) > SumPrices(RecentPoints(pts))

\* variant: the quantity is rounded up
Quantity_RoundsUp(amount, price) == (amount + price - 1) \div price

\* Math.floor(investmentAmount / currentPrice), for a positive price
Quantity(amount, price) == amount \div price

\* variant: the action is decided whatever the deviation is
Action_AlwaysTrades(price, pivot, pts) ==
    IF AboveRecent(price, pts) THEN "BUY" ELSE "SELL"

\* the value of action after the if (mcpDeviation <= 0.005) block
Action(price, pivot, pts) ==
    IF NearMCP(price, pivot.price)
    THEN IF AboveRecent(price, pts) THEN "BUY" ELSE "SELL"
    ELSE NoAction

\* nothing has been sent on res
NoResponse == [status |-> 0, action |-> NoAction, order |-> FALSE]

\* res.status(code).json({error})
ErrorResponse(code) == [status |-> code, action |-> NoAction, order |-> FALSE]

\* no strategy request has been made
NoStrategyRun ==
    /\ pc = "idle"
    /\ investmentAmount = Absent
    /\ dataPoints = <<>>
    /\ mcp = NoMcp
    /\ currentPrice = Absent
    /\ action = NoAction
    /\ orderPrice = Absent
    /\ quantity = Absent
    /\ calls = <<>>
    /\ res = NoResponse

\* no batch request has been made
NoBatchRun ==
    /\ symbols = 0
    /\ fetching = {}
    /\ fetches = <<>>
    /\ candles = <<>>
    /\ results = <<>>
    /\ batchRes = 0

\* callMCPServer has not been called
NoClientCall ==
    /\ isAuthenticated = FALSE
    /\ clientPc = "idle"
    /\ attempts = 0
    /\ answers = <<>>
    /\ returned = "nothing"

\* the command-line client has been started: the script calls checkAuthStatus
\* at once, and the probe is on its way
NoCliRun ==
    /\ cliAuthenticated = FALSE
    /\ cliPc = "start"
    /\ cliProbe = 0
    /\ cliMenus = 0
    /\ cliGated = 0

TypeOK ==
    /\ authState.accessToken \in 0..(2 * NumTokens)
    /\ authState.refreshToken \in 0..(2 * NumTokens)
    /\ authState.expiresAt \in 0..(MaxTime + 6)
    /\ authState.isAuthenticated \in BOOLEAN
    /\ tokenFile.kind \in {"nofile", "empty", "data"}
    /\ upstoxClient \in 0..(2 * NumTokens)
    /\ now \in 0..MaxTime
    /\ BagCardinality(req) <= MaxReqs
    /\ \A q \in Waiting :
          /\ q.pc \in {"refreshing", "exchanging"}
          /\ q.at \in 0..MaxTime
    /\ last.status \in {0, 200, 400, 401, 500}

Init ==
    /\ tokenFile = NoFile
    /\ now = 0
    /\ authState = LoadAuth(tokenFile, now)
    /\ upstoxClient = LoadClient(tokenFile, now)
    /\ req = EmptyBag
    /\ last = NoLast
    /\ lastCheckValid = TokenLive(authState, now)
    /\ loggedOut = FALSE
    /\ permRejected = FALSE
    /\ NoStrategyRun
    /\ NoBatchRun
    /\ NoClientCall
    /\ NoCliRun
    /\ issued = 0

\* ----- requireAuth + ensureValidToken, synchronous part -------------------
\* a request for one of the API routes arrives
RequireAuth ==
    /\ BagCardinality(req) < MaxReqs
    /\ \/ /\ \E kind \in AuthKinds : ~Guarded(kind)
          /\ last' = CallNext("none")
          /\ UNCHANGED <<req, lastCheckValid>>
       \/ /\ \E kind \in AuthKinds : Guarded(kind)
          /\ CASE ensureValidToken(authState, now) = "notoken" ->
                    /\ last' = Unauthenticated("notoken")
                    /\ lastCheckValid' = TokenLive(authState, now)
                    /\ UNCHANGED req
               [] ensureValidToken(authState, now) = "fast" ->
                    /\ last' = CallNext("fast")
                    /\ lastCheckValid' = TokenLive(authState, now)
                    /\ UNCHANGED req
               [] OTHER ->
                    /\ req' = req (+) One(Refreshing(now))
                    /\ last' = Awaiting("api")
                    /\ UNCHANGED lastCheckValid
    /\ UNCHANGED <<authState, tokenFile, upstoxClient, now, loggedOut, permRejected>>
    /\ UNCHANGED <<strategyVars, batchVars, clientVars, serverVars, cliVars>>

\* the token endpoint answers the refresh of request q with a new pair
RefreshOk(q) ==
    /\ BagIn(q, req) /\ q.pc = "refreshing"
    /\ \E n \in TokenIds, e \in ExpiresIn :
          /\ authState' = TokenResponse(n, e, now)
          /\ upstoxClient' = authState'.accessToken
          /\ tokenFile' = saveTokenData(authState')
          /\ last' = CallNext("refreshed")
          /\ lastCheckValid' = TokenLive(authState', now)
    /\ req' = req (-) One(q)
    /\ UNCHANGED <<now, loggedOut, permRejected>>
    /\ UNCHANGED <<strategyVars, batchVars, clientVars, serverVars, cliVars>>

\* variant: the catch block clears the token state
RefreshFail_Clears(q) ==
    /\ BagIn(q, req) /\ q.pc = "refreshing"
    /\ \E rejected \in {why = "invalid_grant" : why \in FailReasons} :
          permRejected' = (permRejected \/ rejected)
    /\ req' = req (-) One(q)
    /\ last' = [route |-> "api", auth |-> "failed", status |-> 401, next |-> FALSE]
    /\ authState' = NullAuth
    /\ tokenFile' = EmptyFile
    /\ lastCheckValid' = FALSE
    /\ UNCHANGED <<upstoxClient, now, loggedOut>>
    /\ UNCHANGED <<strategyVars, batchVars, clientVars, serverVars, cliVars>>

\* the refresh of request q is rejected or fails: the catch block
RefreshFail(q) ==
    /\ BagIn(q, req) /\ q.pc = "refreshing"
    /\ \E rejected \in {why = "invalid_grant" : why \in FailReasons} :
          permRejected' = (permRejected \/ rejected)
    /\ req' = req (-) One(q)
    /\ last' = Unauthenticated("failed")
    /\ lastCheckValid' = TokenLive(authState, q.at)
    /\ UNCHANGED <<authState, tokenFile, upstoxClient, now, loggedOut>>
    /\ UNCHANGED <<strategyVars, batchVars, clientVars, serverVars, cliVars>>

\* ----- GET /callback ------------------------------------------------------
Callback ==
    /\ BagCardinality(req) < MaxReqs
    /\ \E hasCode \in BOOLEAN :
          IF hasCode
          THEN /\ req' = req (+) One(Exchanging)
               /\ last' = Awaiting("callback")
          ELSE /\ last' = [route |-> "callback", auth |-> "none",
                           status |-> 400, next |-> FALSE]
               /\ UNCHANGED req
    /\ UNCHANGED <<authState, tokenFile, upstoxClient, now,
                   lastCheckValid, loggedOut, permRejected>>
    /\ UNCHANGED <<strategyVars, batchVars, clientVars, serverVars, cliVars>>

ExchangeOk(q) ==
    /\ BagIn(q, req) /\ q.pc = "exchanging"
    /\ \E n \in TokenIds, e \in ExpiresIn :
          /\ authState' = TokenResponse(n, e, now)
          /\ upstoxClient' = authState'.accessToken
          /\ tokenFile' = saveTokenData(authState')
          /\ lastCheckValid' = TokenLive(authState', now)
    /\ req' = req (-) One(q)
    /\ last' = [route |-> "callback", auth |-> "none", status |-> 200, next |-> FALSE]
    /\ loggedOut' = FALSE
    /\ permRejected' = FALSE
    /\ UNCHANGED now
    /\ UNCHANGED <<strategyVars, batchVars, clientVars, serverVars, cliVars>>

ExchangeFail(q) ==
    /\ BagIn(q, req) /\ q.pc = "exchanging"
    /\ req' = req (-) One(q)
    /\ last' = [route |-> "callback", auth |-> "none", status |-> 500, next |-> FALSE]
    /\ UNCHANGED <<authState, tokenFile, upstoxClient, now,
                   lastCheckValid, loggedOut, permRejected>>
    /\ UNCHANGED <<strategyVars, batchVars, clientVars, serverVars, cliVars>>

\* ----- GET /logout --------------------------------------------------------
\* variant: the token file is left as it is
Logout_KeepsFile ==
    /\ authState' = NullAuth
    /\ last' = [route |-> "logout", auth |-> "none", status |-> 200, next |-> FALSE]
    /\ lastCheckValid' = FALSE
    /\ loggedOut' = TRUE
    /\ UNCHANGED <<tokenFile, upstoxClient, now, req, permRejected>>
    /\ UNCHANGED <<strategyVars, batchVars, clientVars, serverVars, cliVars>>

Logout ==
    /\ authState' = NullAuth
    /\ tokenFile' = EmptyFile
    /\ last' = [route |-> "logout", auth |-> "none", status |-> 200, next |-> FALSE]
    /\ lastCheckValid' = FALSE
    /\ loggedOut' = TRUE
    /\ UNCHANGED <<upstoxClient, now, req, permRejected>>
    /\ UNCHANGED <<strategyVars, batchVars, clientVars, serverVars, cliVars>>

\* ----- the process is restarted: requests in progress are lost ------------
\* variant: the startup block does not read the token file
Restart_Forgets ==
    /\ authState' = NullAuth
    /\ upstoxClient' = Absent
    /\ req' = EmptyBag
    /\ last' = NoLast
    /\ lastCheckValid' = FALSE
    /\ UNCHANGED <<tokenFile, now, loggedOut, permRejected>>
    /\ UNCHANGED <<strategyVars, batchVars, clientVars, serverVars, cliVars>>

Restart ==
    /\ authState' = LoadAuth(tokenFile, now)
    /\ upstoxClient' = LoadClient(tokenFile, now)
    /\ req' = EmptyBag
    /\ last' = NoLast
    /\ lastCheckValid' = TokenLive(authState', now)
    /\ UNCHANGED <<tokenFile, now, loggedOut, permRejected>>
    /\ UNCHANGED <<strategyVars, batchVars, clientVars, serverVars, cliVars>>

Tick ==
    /\ now < MaxTime
    /\ now' = now + 1
    /\ UNCHANGED <<authState, tokenFile, upstoxClient, req,
                   last, lastCheckValid, loggedOut, permRejected>>
    /\ UNCHANGED <<strategyVars, batchVars, clientVars, serverVars, cliVars>>

Next ==
    \/ RequireAuth
    \/ \E q \in Waiting : RefreshOk(q)
    \/ \E q \in Waiting : RefreshFail(q)
    \/ Callback
    \/ \E q \in Waiting : ExchangeOk(q)
    \/ \E q \in Waiting : ExchangeFail(q)
    \/ Logout
    \/ Restart
    \/ Tick

Spec == Init /\ [][Next]_vars

\* ----- the session while every refresh succeeds and nobody logs out --------
LiveNext ==
    \/ RequireAuth
    \/ \E q \in Waiting : RefreshOk(q)
    \/ Callback
    \/ \E q \in Waiting : ExchangeOk(q)
    \/ \E q \in Waiting : ExchangeFail(q)
    \/ Restart
    \/ Tick

\* time passes, and the token endpoint answers every refresh it receives
Fairness ==
    /\ WF_vars(Tick)
    /\ \A t \in 0..MaxTime : WF_vars(RefreshOk(Refreshing(t)))

LiveSpec == Init /\ [][LiveNext]_vars /\ Fairness

\* ----- POST /strategy/mcp: the handler, one run -----------------------------
\* the session when requireAuth has called next() on the fast path
StrategyInit ==
    /\ now = 0
    /\ authState = TokenResponse(1, 6, now)
    /\ tokenFile = saveTokenData(authState)
    /\ upstoxClient = authState.accessToken
    /\ req = EmptyBag
    /\ last = CallNext("fast")
    /\ lastCheckValid = TokenLive(authState, now)
    /\ loggedOut = FALSE
    /\ permRejected = FALSE
    /\ NoStrategyRun
    /\ NoBatchRun
    /\ NoClientCall
    /\ NoCliRun
    /\ issued = 0

\* the handler starts: it asks for the candles and awaits them
StrategyRequest ==
    /\ pc = "idle"
    /\ \E amount \in Investments : investmentAmount' = amount
    /\ calls' = Append(calls, "getHistoricalCandleData")
    /\ pc' = "candles"
    /\ UNCHANGED <<dataPoints, mcp, currentPrice, action, orderPrice, quantity, res>>
    /\ UNCHANGED <<sessionVars, batchVars, clientVars, serverVars, cliVars>>

\* variant: without a pivot the handler goes on to the quote request
HistoricalData_QuoteAnyway ==
    /\ pc = "candles"
    /\ \E pts \in Series : dataPoints' = pts
    /\ mcp' = calculateMCP(dataPoints')
    /\ calls' = Append(calls, "getMarketQuoteOHLC")
    /\ pc' = "quote"
    /\ UNCHANGED res
    /\ UNCHANGED <<investmentAmount, currentPrice, action, orderPrice, quantity>>
    /\ UNCHANGED <<sessionVars, batchVars, clientVars, serverVars, cliVars>>

\* the candles arrive: calculateMCP, then 404 or the quote request
HistoricalData ==
    /\ pc = "candles"
    /\ \E pts \in Series : dataPoints' = pts
    /\ mcp' = calculateMCP(dataPoints')
    /\ IF mcp' = NoMcp
       THEN /\ res' = ErrorResponse(404)
            /\ pc' = "done"
            /\ UNCHANGED calls
       ELSE /\ calls' = Append(calls, "getMarketQuoteOHLC")
            /\ pc' = "quote"
            /\ UNCHANGED res
    /\ UNCHANGED <<investmentAmount, currentPrice, action, orderPrice, quantity>>
    /\ UNCHANGED <<sessionVars, batchVars, clientVars, serverVars, cliVars>>

\* the quote arrives: the decision, then HOLD, 400 or the order request
MarketQuote ==
    /\ pc = "quote"
    /\ \E price \in LastPrices : currentPrice' = price
    /\ action' = Action(currentPrice', mcp, dataPoints)
    /\ IF action' = NoAction
       THEN /\ orderPrice' = Absent
            /\ quantity' = Absent
            /\ res' = [status |-> 200, action |-> "HOLD", order |-> FALSE]
            /\ pc' = "done"
            /\ UNCHANGED calls
       ELSE /\ orderPrice' = currentPrice'
            /\ quantity' = Quantity(investmentAmount, currentPrice')
            /\ IF quantity' > 0
               THEN /\ calls' = Append(calls, "placeOrder")
                    /\ pc' = "order"
                    /\ UNCHANGED res
               ELSE /\ res' = ErrorResponse(400)
                    /\ pc' = "done"
                    /\ UNCHANGED calls
    /\ UNCHANGED <<investmentAmount, dataPoints, mcp>>
    /\ UNCHANGED <<sessionVars, batchVars, clientVars, serverVars, cliVars>>

\* the order is accepted: res.json({strategy: 'MCP', action, order, ...})
OrderPlaced ==
    /\ pc = "order"
    /\ res' = [status |-> 200, action |-> action, order |-> TRUE]
    /\ pc' = "done"
    /\ UNCHANGED <<investmentAmount, dataPoints, mcp, currentPrice,
                   action, orderPrice, quantity, calls>>
    /\ UNCHANGED <<sessionVars, batchVars, clientVars, serverVars, cliVars>>

\* an awaited SDK call is rejected: the catch block
StrategyError ==
    /\ pc \in {"candles", "quote", "order"}
    /\ res' = ErrorResponse(500)
    /\ pc' = "done"
    /\ UNCHANGED <<investmentAmount, dataPoints, mcp, currentPrice,
                   action, orderPrice, quantity, calls>>
    /\ UNCHANGED <<sessionVars, batchVars, clientVars, serverVars, cliVars>>

StrategyNext ==
    \/ StrategyRequest
    \/ HistoricalData
    \/ MarketQuote
    \/ OrderPlaced
    \/ StrategyError

StrategySpec == StrategyInit /\ [][StrategyNext]_vars

\* ----- POST /mcp/calculate: the handler, one run ----------------------------
\* candle series the market-data provider answers a batch with, among them
\* series with a negative and with a zero close price
BatchSeries == {<<999, 1001>>, <<1000, 1000>>, <<5, -5>>, <<10, 0>>}

\* the session when requireAuth has called next() on the fast path
AuthenticatedSession ==
    /\ now = 0
    /\ authState = TokenResponse(1, 6, now)
    /\ tokenFile = saveTokenData(authState)
    /\ upstoxClient = authState.accessToken
    /\ req = EmptyBag
    /\ last = CallNext("fast")
    /\ lastCheckValid = TokenLive(authState, now)
    /\ loggedOut = FALSE
    /\ permRejected = FALSE

BatchInit ==
    /\ AuthenticatedSession
    /\ NoStrategyRun
    /\ NoBatchRun
    /\ NoClientCall
    /\ NoCliRun
    /\ issued = 0

\* variant: the fetches of all symbols are started together
FirstFetches_All(n) == 1..n

\* for (const symbol of symbols): the loop starts with the first symbol
FirstFetches(n) == {1}

\* the loop goes on to the next symbol, if there is one
NextFetches(i, n) == IF i < n THEN {i + 1} ELSE {}

\* the symbols of a set, in ascending order
RECURSIVE Ascending(_)
Ascending(set) ==
    IF set = {} THEN <<>>
    ELSE LET least == CHOOSE x \in set : \A y \in set : x <= y
         IN <<least>> \o Ascending(set \ {least})

\* a batch request arrives: requireAuth answers 401 without a usable token;
\* else the handler starts: 400 without symbols, else the first candle fetch
\* (the session of BatchSpec never needs a refresh)
BatchRequest ==
    /\ symbols = 0 /\ batchRes = 0 /\ fetches = <<>>
    /\ ensureValidToken(authState, now) # "refresh"
    /\ lastCheckValid' = TokenLive(authState, now)
    /\ IF ensureValidToken(authState, now) = "notoken"
       THEN /\ last' = Unauthenticated("notoken")
            /\ batchRes' = 401
            /\ UNCHANGED <<symbols, fetching, fetches>>
       ELSE /\ last' = CallNext("fast")
            /\ \E n \in 0..MaxSymbols :
                  IF n = 0
                  THEN /\ batchRes' = 400
                       /\ UNCHANGED <<symbols, fetching, fetches>>
                  ELSE /\ symbols' = n
                       /\ fetching' = FirstFetches(n)
                       /\ fetches' = Ascending(FirstFetches(n))
                       /\ UNCHANGED batchRes
    /\ UNCHANGED <<candles, results>>
    /\ UNCHANGED <<authState, tokenFile, upstoxClient, now, req, loggedOut, permRejected>>
    /\ UNCHANGED <<strategyVars, clientVars, serverVars, cliVars>>

\* the candles of symbol i arrive: results[symbol] = calculateMCP(dataPoints),
\* then the fetch of the next symbol, or res.json(results) after the last
CandleData(i) ==
    /\ i \in fetching
    /\ \E pts \in BatchSeries :
          /\ candles' = [k \in DOMAIN candles \cup {i} |->
                            IF k = i THEN pts ELSE candles[k]]
          /\ results' = [k \in DOMAIN results \cup {i} |->
                            IF k = i THEN calculateMCP(pts) ELSE results[k]]
    /\ fetching' = (fetching \ {i}) \cup (NextFetches(i, symbols) \ DOMAIN results')
    /\ fetches' = fetches \o Ascending(fetching' \ fetching)
    /\ batchRes' = IF fetching' = {} THEN 200 ELSE batchRes
    /\ UNCHANGED symbols
    /\ UNCHANGED <<sessionVars, strategyVars, clientVars, serverVars, cliVars>>

\* the candle fetch of symbol i is rejected: the catch block, the loop ends
CandleError(i) ==
    /\ i \in fetching
    /\ batchRes = 0
    /\ batchRes' = 500
    /\ fetching' = fetching \ {i}
    /\ UNCHANGED <<symbols, fetches, candles, results>>
    /\ UNCHANGED <<sessionVars, strategyVars, clientVars, serverVars, cliVars>>

BatchNext ==
    \/ BatchRequest
    \/ \E i \in 1..MaxSymbols : CandleData(i)
    \/ \E i \in 1..MaxSymbols : CandleError(i)
    \/ Logout

BatchSpec == BatchInit /\ [][BatchNext]_vars

\* ----- the client: one call of callMCPServer --------------------------------
\* HTTP statuses the server answers the client with (500: any other failure)
Statuses == {200, 401, 500}

\* const response = await axios(config): the request goes out
SendRequest ==
    /\ attempts' = attempts + 1
    /\ clientPc' = "request"

\* callMCPServer is called: without the flag it first probes the server with
\* checkAuthStatus, with the flag it sends the request
ClientCall ==
    /\ clientPc = "idle"
    /\ IF isAuthenticated
       THEN SendRequest
       ELSE /\ clientPc' = "precheck"
            /\ UNCHANGED attempts
    /\ UNCHANGED <<isAuthenticated, answers, returned>>
    /\ UNCHANGED <<sessionVars, strategyVars, batchVars, serverVars, cliVars>>

\* the probe of checkAuthStatus is answered: on 200 the request goes out,
\* otherwise authenticate() prompts for a login and probes again
PrecheckAnswer ==
    /\ clientPc = "precheck"
    /\ \E status \in Statuses :
          /\ answers' = Append(answers, status)
          /\ IF status = 200
             THEN /\ isAuthenticated' = TRUE
                  /\ attempts < MaxAttempts
                  /\ SendRequest
             ELSE /\ isAuthenticated' = (IF status = 401 THEN FALSE ELSE isAuthenticated)
                  /\ clientPc' = "verify"
                  /\ UNCHANGED attempts
    /\ UNCHANGED returned
    /\ UNCHANGED <<sessionVars, strategyVars, batchVars, serverVars, cliVars>>

\* the probe of authenticate() before the first request is answered: on 200
\* the request goes out, otherwise callMCPServer returns null
VerifyAnswer ==
    /\ clientPc = "verify"
    /\ \E status \in Statuses :
          /\ answers' = Append(answers, status)
          /\ IF status = 200
             THEN /\ isAuthenticated' = TRUE
                  /\ attempts < MaxAttempts
                  /\ SendRequest
                  /\ UNCHANGED returned
             ELSE /\ isAuthenticated' = (IF status = 401 THEN FALSE ELSE isAuthenticated)
                  /\ clientPc' = "done"
                  /\ returned' = "null"
                  /\ UNCHANGED attempts
    /\ UNCHANGED <<sessionVars, strategyVars, batchVars, serverVars, cliVars>>

\* the request is answered: data on 200; on 401 the flag is cleared and
\* authenticate() prompts for a login and probes; null on any other failure
RequestAnswer ==
    /\ clientPc = "request"
    /\ \E status \in Statuses :
          /\ answers' = Append(answers, status)
          /\ CASE status = 200 ->
                    /\ clientPc' = "done"
                    /\ returned' = "data"
                    /\ UNCHANGED isAuthenticated
               [] status = 401 ->
                    /\ isAuthenticated' = FALSE
                    /\ clientPc' = "reverify"
                    /\ UNCHANGED returned
               [] OTHER ->
                    /\ clientPc' = "done"
                    /\ returned' = "null"
                    /\ UNCHANGED isAuthenticated
    /\ UNCHANGED attempts
    /\ UNCHANGED <<sessionVars, strategyVars, batchVars, serverVars, cliVars>>

\* the probe of authenticate() after a 401 is answered: on 200
\* return callMCPServer(endpoint, method, data), which sends the request
\* again; otherwise callMCPServer returns null
ReverifyAnswer ==
    /\ clientPc = "reverify"
    /\ \E status \in Statuses :
          /\ answers' = Append(answers, status)
          /\ IF status = 200
             THEN /\ isAuthenticated' = TRUE
                  /\ attempts < MaxAttempts
                  /\ SendRequest
                  /\ UNCHANGED returned
             ELSE /\ isAuthenticated' = (IF status = 401 THEN FALSE ELSE isAuthenticated)
                  /\ clientPc' = "done"
                  /\ returned' = "null"
                  /\ UNCHANGED attempts
    /\ UNCHANGED <<sessionVars, strategyVars, batchVars, serverVars, cliVars>>

\* callMCPServer has returned to its caller (generatePortfolioAnalysis calls it
\* once per endpoint); the module-level flag is kept for the next call
ClientReturn ==
    /\ clientPc = "done"
    /\ clientPc' = "idle"
    /\ attempts' = 0
    /\ answers' = <<>>
    /\ returned' = "nothing"
    /\ UNCHANGED isAuthenticated
    /\ UNCHANGED <<sessionVars, strategyVars, batchVars, serverVars, cliVars>>

ClientNext ==
    \/ ClientCall
    \/ PrecheckAnswer
    \/ VerifyAnswer
    \/ RequestAnswer
    \/ ReverifyAnswer
    \/ ClientReturn

ClientSpec == Init /\ [][ClientNext]_vars

\* ----- refreshes against an authorization server that rotates tokens ------
\* The authorization server numbers the pairs it issues; a pair it issues
\* replaces the pairs issued before it.

\* a refresh the authorization server has answered with pair n; the answer has
\* not reached the handler yet (at: the pair)
Answered(n) == [pc |-> "answered", at |-> n]

\* a login has completed: the server has issued pair 1 and /callback stored it
RotationInit ==
    /\ now = 0
    /\ \E e \in ExpiresIn : authState = TokenResponse(1, e, now)
    /\ tokenFile = saveTokenData(authState)
    /\ upstoxClient = authState.accessToken
    /\ req = EmptyBag
    /\ last = [route |-> "callback", auth |-> "none", status |-> 200, next |-> FALSE]
    /\ lastCheckValid = TokenLive(authState, now)
    /\ loggedOut = FALSE
    /\ permRejected = FALSE
    /\ NoStrategyRun
    /\ NoBatchRun
    /\ NoClientCall
    /\ NoCliRun
    /\ issued = 1

\* the authorization server receives the refresh of request q and issues the
\* next pair
ServerRefresh(q) ==
    /\ BagIn(q, req) /\ q.pc = "refreshing"
    /\ issued < MaxIssued
    /\ issued' = issued + 1
    /\ req' = (req (-) One(q)) (+) One(Answered(issued'))
    /\ UNCHANGED <<authState, tokenFile, upstoxClient, now,
                   last, lastCheckValid, loggedOut, permRejected>>
    /\ UNCHANGED <<strategyVars, batchVars, clientVars, cliVars>>

\* the answer to request q reaches ensureValidToken: lines 813-826
RefreshArrives(q) ==
    /\ BagIn(q, req) /\ q.pc = "answered"
    /\ \E e \in ExpiresIn :
          /\ authState' = TokenResponse(q.at, e, now)
          /\ upstoxClient' = authState'.accessToken
          /\ tokenFile' = saveTokenData(authState')
          /\ last' = CallNext("refreshed")
          /\ lastCheckValid' = TokenLive(authState', now)
    /\ req' = req (-) One(q)
    /\ UNCHANGED <<now, loggedOut, permRejected>>
    /\ UNCHANGED <<strategyVars, batchVars, clientVars, serverVars, cliVars>>

RotationNext ==
    \/ RequireAuth
    \/ \E q \in Waiting : ServerRefresh(q)
    \/ \E q \in Waiting : RefreshArrives(q)
    \/ \E q \in Waiting : RefreshFail(q)
    \/ Tick

RotationSpec == RotationInit /\ [][RotationNext]_vars

\* ----- the trading command-line client ------------------------------------
\* callMCPServer: the catch block clears the flag on a 401
callMCPServerFlag(flag, status) == IF status = 401 THEN FALSE ELSE flag

\* callMCPServer returns response.data on success and null from its catch
\* block: it never throws
callMCPServerResult(status) == status = 200

\* checkAuthStatus: await callMCPServer('/positions'); isAuthenticated = true;
\* return true. Its catch block is not reached, as callMCPServer never throws.
checkAuthStatus(flag, status) == TRUE

\* showMenu: without the flag it calls checkAuthStatus, else it prompts
ShowMenu(flag) == IF flag THEN "menu" ELSE "menuProbe"

\* the probe sent at the start of the script is answered
StartAnswer ==
    /\ cliPc = "start"
    /\ \E status \in Statuses :
          /\ cliProbe' = status
          /\ cliAuthenticated' = checkAuthStatus(cliAuthenticated, status)
    /\ cliPc' = ShowMenu(cliAuthenticated')
    /\ UNCHANGED <<cliMenus, cliGated>>
    /\ UNCHANGED <<sessionVars, strategyVars, batchVars, clientVars, serverVars>>

\* the probe sent by showMenu is answered: isAuthenticated = status
MenuProbeAnswer ==
    /\ cliPc = "menuProbe"
    /\ \E status \in Statuses :
          /\ cliProbe' = status
          /\ cliAuthenticated' = checkAuthStatus(cliAuthenticated, status)
    /\ cliPc' = "menu"
    /\ UNCHANGED <<cliMenus, cliGated>>
    /\ UNCHANGED <<sessionVars, strategyVars, batchVars, clientVars, serverVars>>

\* the user chooses 1: authenticate() prompts and probes the server
ChooseAuthenticate ==
    /\ cliPc = "menu" /\ cliMenus < MaxMenus
    /\ cliMenus' = cliMenus + 1
    /\ cliPc' = "verify"
    /\ UNCHANGED <<cliAuthenticated, cliProbe, cliGated>>
    /\ UNCHANGED <<sessionVars, strategyVars, batchVars, clientVars, serverVars>>

\* the user chooses 2..6: the operation returns at once without the flag,
\* else it calls the server
ChooseGated ==
    /\ cliPc = "menu" /\ cliMenus < MaxMenus
    /\ cliMenus' = cliMenus + 1
    /\ IF cliAuthenticated
       THEN /\ cliPc' = "gated"
            /\ cliGated' = cliGated + 1
       ELSE /\ cliPc' = ShowMenu(cliAuthenticated)
            /\ UNCHANGED cliGated
    /\ UNCHANGED <<cliAuthenticated, cliProbe>>
    /\ UNCHANGED <<sessionVars, strategyVars, batchVars, clientVars, serverVars>>

\* the user chooses 7: logout() calls /logout
ChooseLogout ==
    /\ cliPc = "menu" /\ cliMenus < MaxMenus
    /\ cliMenus' = cliMenus + 1
    /\ cliPc' = "logout"
    /\ UNCHANGED <<cliAuthenticated, cliProbe, cliGated>>
    /\ UNCHANGED <<sessionVars, strategyVars, batchVars, clientVars, serverVars>>

\* the user chooses 0
ChooseExit ==
    /\ cliPc = "menu"
    /\ cliPc' = "exit"
    /\ UNCHANGED <<cliAuthenticated, cliProbe, cliMenus, cliGated>>
    /\ UNCHANGED <<sessionVars, strategyVars, batchVars, clientVars, serverVars>>

\* the probe of authenticate() is answered: the flag is set when the result
\* is not null
AuthenticateAnswer ==
    /\ cliPc = "verify"
    /\ \E status \in Statuses :
          /\ cliProbe' = status
          /\ cliAuthenticated' =
                IF callMCPServerResult(status) THEN TRUE
                ELSE callMCPServerFlag(cliAuthenticated, status)
    /\ cliPc' = ShowMenu(cliAuthenticated')
    /\ UNCHANGED <<cliMenus, cliGated>>
    /\ UNCHANGED <<sessionVars, strategyVars, batchVars, clientVars, serverVars>>

\* the call of a gated operation is answered
GatedAnswer ==
    /\ cliPc = "gated"
    /\ \E status \in Statuses :
          cliAuthenticated' = callMCPServerFlag(cliAuthenticated, status)
    /\ cliPc' = ShowMenu(cliAuthenticated')
    /\ UNCHANGED <<cliProbe, cliMenus, cliGated>>
    /\ UNCHANGED <<sessionVars, strategyVars, batchVars, clientVars, serverVars>>

\* /logout is answered (the route has no requireAuth: 200, or a failure)
LogoutAnswer ==
    /\ cliPc = "logout"
    /\ \E status \in Statuses \ {401} :
          cliAuthenticated' =
             IF callMCPServerResult(status) THEN FALSE ELSE cliAuthenticated
    /\ cliPc' = ShowMenu(cliAuthenticated')
    /\ UNCHANGED <<cliProbe, cliMenus, cliGated>>
    /\ UNCHANGED <<sessionVars, strategyVars, batchVars, clientVars, serverVars>>

CliNext ==
    \/ StartAnswer
    \/ MenuProbeAnswer
    \/ ChooseAuthenticate
    \/ ChooseGated
    \/ ChooseLogout
    \/ ChooseExit
    \/ AuthenticateAnswer
    \/ GatedAnswer
    \/ LogoutAnswer

CliSpec == Init /\ [][CliNext]_vars

\* ======================= claims about the session ========================
\* the token state has a refresh token and an expiry
TokensOnRecord == authState.refreshToken # Absent /\ authState.expiresAt # Absent

\* the refresh requests that wait for an answer of the token endpoint
RefreshesInFlight ==
    BagCardinality([q \in {x \in Waiting : x.pc = "refreshing"} |-> CopiesIn(q, req)])

\* the authState is a complete answer of the token endpoint received at time t
FreshState(a, t) ==
    \E n \in TokenIds, e \in ExpiresIn :
       a = [accessToken |-> AccessTok(n), refreshToken |-> RefreshTok(n),
            expiresAt |-> t + e, isAuthenticated |-> TRUE]

\* C1: with a refresh token and an expiry on record and expiresAt more than
\* five minutes after now, a call of ensureValidToken returns true, sends
\* nothing to the token endpoint and leaves the token state, the token file
\* and the SDK token as they are.
C1_FastPath ==
    [][(TokensOnRecord /\ authState.expiresAt > now + FiveMinutes /\ RequireAuth)
       => /\ last'.auth = "fast"
          /\ last'.status # 401
          /\ last'.next
          /\ req' = req
          /\ authState' = authState
          /\ tokenFile' = tokenFile
          /\ upstoxClient' = upstoxClient]_vars

C1_Witness ==
    /\ last.auth = "fast"
    /\ last.next
    /\ TokensOnRecord
    /\ authState.expiresAt > now + FiveMinutes
    /\ req = EmptyBag

\* C2: when the refresh is rejected or fails, ensureValidToken returns false
\* (the request is answered 401, the handler does not run) and the token
\* state and the token file are what they were before the failure was
\* handled; a call made after a failure, with the token still near expiry,
\* sends a refresh again.
C2_FailedRefreshKeepsState ==
    [][/\ (\E q \in Waiting : RefreshFail(q))
          => /\ last'.auth = "failed"
             /\ last'.status = 401
             /\ ~last'.next
             /\ authState' = authState
             /\ tokenFile' = tokenFile
             /\ upstoxClient' = upstoxClient
       /\ (last.auth = "failed" /\ TokensOnRecord
             /\ authState.expiresAt <= now + FiveMinutes /\ RequireAuth)
          => req' = req (+) One(Refreshing(now))]_vars

C2_Witness ==
    /\ last.auth = "failed"
    /\ last.status = 401
    /\ TokensOnRecord
    /\ authState.accessToken # Absent
    /\ authState.expiresAt <= now + FiveMinutes
    /\ tokenFile = saveTokenData(authState)
    /\ BagCardinality(req) < MaxReqs

C3_BoundaryWitness ==
    /\ TokensOnRecord
    /\ authState.expiresAt = now + FiveMinutes
    /\ BagIn(Refreshing(now), req)
    /\ last = Awaiting("api")

\* C4: without a refresh token on record a call of ensureValidToken returns
\* false (401, the handler does not run), sends nothing to the token endpoint
\* and leaves the token state and the token file as they are.
C4_NoRefreshToken ==
    [][(authState.refreshToken = Absent /\ RequireAuth)
       => /\ last'.auth = "notoken"
          /\ last'.status = 401
          /\ ~last'.next
          /\ req' = req
          /\ authState' = authState
          /\ tokenFile' = tokenFile]_vars

C4_Witness ==
    /\ last.auth = "notoken"
    /\ last.status = 401
    /\ authState.refreshToken = Absent
    /\ req = EmptyBag

\* C5: for every route behind requireAuth, a request for which
\* ensureValidToken returned false is answered 401 and its handler does not
\* run, so it issues no SDK call (candles, quote, positions, order); a handler
\* only ever runs for a request for which ensureValidToken returned true (on
\* the fast path, or after its refresh succeeded).
C5_RequireAuthGuards ==
    [][/\ ((~TokensOnRecord /\ RequireAuth) \/ (\E q \in Waiting : RefreshFail(q)))
          => (last'.status = 401 /\ ~last'.next)
       /\ (last'.next /\ now' = now)
          => \/ /\ TokensOnRecord
                /\ authState.expiresAt > now + FiveMinutes
                /\ req' = req
             \/ \E q \in Waiting :
                  /\ q.pc = "refreshing"
                  /\ req' = req (-) One(q)
                  /\ FreshState(authState', now)]_vars

C5_Witness ==
    /\ last.route = "api"
    /\ last.status = 401
    /\ ~last.next
    /\ last.auth \in {"notoken", "failed"}

\* C6 (as claimed): at most one refresh-token exchange is in flight at any
\* time.
C6_OneRefreshInFlight == RefreshesInFlight <= 1

\* C7 (as claimed): isAuthenticated is true exactly when, at the most recent
\* check (startup load or ensureValidToken), the access token was present and
\* expiresAt was in the future.
C7_AuthenticatedIffLive ==
    authState.isAuthenticated <=> lastCheckValid

\* C8 (as claimed): /logout wipes the token state and persists the empty
\* state, and from then until a /callback exchange succeeds ensureValidToken
\* returns false without a request and a restart loads an unauthenticated
\* state.
C8_LogoutIsFinal ==
    /\ last.route = "logout" => (authState = NullAuth /\ tokenFile = EmptyFile)
    /\ loggedOut => /\ ensureValidToken(authState, now) = "notoken"
                    /\ ~LoadAuth(tokenFile, now).isAuthenticated

\* C9 (as claimed): after the authorization server has answered a refresh with
\* invalid_grant, and until a login completes, the stored tokens are cleared
\* and ensureValidToken returns false without a request.
C9_InvalidGrantClears ==
    permRejected =>
       /\ authState.refreshToken = Absent
       /\ ~authState.isAuthenticated
       /\ ensureValidToken(authState, now) = "notoken"

CandlesArrived ==
    \/ pc \in {"quote", "order"}
    \/ pc = "done" /\ (Len(calls) > 1 \/ res.status = 404)

\* the points of a series at which the price crosses the mean of the series:
\* the point is above the mean and the point before it is not, or the reverse
MeanCrossings(pts) ==
    {i \in 2..Len(pts) :
        (pts[i] * Len(pts) > SumPrices(pts))
           # (pts[i - 1] * Len(pts) > SumPrices(pts))}

\* the number of points within 0.1% of the (positive) price of point i
Touches(pts, i) ==
    Cardinality({j \in 1..Len(pts) : 1000 * Abs(pts[i] - pts[j]) <= pts[i]})

\* C14: when calculateMCP returns a pivot, the pivot is one of the
\* mean-crossover points of the series, its connections field is the number
\* of points within 0.1% of its price, and no crossover point has more.
C14_MaxConnections ==
    (CandlesArrived /\ mcp # NoMcp)
    => /\ mcp.timestamp \in MeanCrossings(dataPoints)
       /\ mcp.price = dataPoints[mcp.timestamp]
       /\ mcp.connections = Touches(dataPoints, mcp.timestamp)
       /\ \A i \in MeanCrossings(dataPoints) :
             Touches(dataPoints, i) <= mcp.connections

\* the pivot returned is not the first candidate and beats an earlier one
C14_Witness ==
    /\ CandlesArrived
    /\ mcp # NoMcp
    /\ \E i \in MeanCrossings(dataPoints) :
          /\ i < mcp.timestamp
          /\ Touches(dataPoints, i) < mcp.connections

\* C15: the pivot is determined by the series: it is the crossover point with
\* the largest connection count and, among those with that count, the first
\* in the series (the earliest timestamp).
C15_TieBreakFirst ==
    (CandlesArrived /\ mcp # NoMcp)
    => \A i \in MeanCrossings(dataPoints) :
          \/ Touches(dataPoints, i) < Touches(dataPoints, mcp.timestamp)
          \/ /\ Touches(dataPoints, i) = Touches(dataPoints, mcp.timestamp)
             /\ mcp.timestamp <= i

\* two candidates share the largest count, at different prices
C15_Witness ==
    /\ CandlesArrived
    /\ mcp # NoMcp
    /\ \E i \in MeanCrossings(dataPoints) :
          /\ i > mcp.timestamp
          /\ Touches(dataPoints, i) = mcp.connections
          /\ dataPoints[i] # mcp.price

StrictlyIncreasing(pts) == \A i \in 2..Len(pts) : pts[i - 1] < pts[i]
StrictlyDecreasing(pts) == \A i \in 2..Len(pts) : pts[i - 1] > pts[i]

\* C16 (as claimed): calculateMCP returns none for every strictly increasing
\* and every strictly decreasing series, of any length.
C16_MonotonicNone ==
    (CandlesArrived
       /\ (StrictlyIncreasing(dataPoints) \/ StrictlyDecreasing(dataPoints)))
    => mcp = NoMcp

\* C16 (amended): a strictly monotonic series of two or more points starts on
\* one side of its mean and ends on the other, so it has exactly one
\* crossover point and calculateMCP returns it: in an increasing series the
\* first point above the mean, in a decreasing series the first point not
\* above the mean.  Only with fewer than two points is the result none.
C16_MonotonicOnePivot ==
    (CandlesArrived
       /\ (StrictlyIncreasing(dataPoints) \/ StrictlyDecreasing(dataPoints)))
    => IF Len(dataPoints) < 2
       THEN mcp = NoMcp
       ELSE /\ mcp # NoMcp
            /\ MeanCrossings(dataPoints) = {mcp.timestamp}
            /\ mcp.price = dataPoints[mcp.timestamp]
            /\ \A i \in 1..Len(dataPoints) :
                  (i >= mcp.timestamp)
                    <=> IF StrictlyIncreasing(dataPoints)
                        THEN dataPoints[i] * Len(dataPoints) > SumPrices(dataPoints)
                        ELSE dataPoints[i] * Len(dataPoints) <= SumPrices(dataPoints)

\* a strictly increasing series of three or more points with its pivot, and
\* a point that lies exactly on the mean
C16_Witness ==
    /\ CandlesArrived
    /\ Len(dataPoints) >= 3
    /\ StrictlyIncreasing(dataPoints)
    /\ mcp # NoMcp
    /\ \E i \in 1..Len(dataPoints) :
          dataPoints[i] * Len(dataPoints) = SumPrices(dataPoints)

\* C17: calculateMCP returns none exactly when the series has no crossover
\* point: for the empty series, for a single point, and for a series whose
\* points are all above or all not above the mean; it returns a pivot as
\* soon as there is one crossover.
C17_NoneIffNoCandidates ==
    CandlesArrived
    => /\ (mcp = NoMcp) <=> (MeanCrossings(dataPoints) = {})
       /\ Len(dataPoints) <= 1 => mcp = NoMcp
       /\ (mcp = NoMcp) <=>
             \A i \in 1..Len(dataPoints) :
                (dataPoints[i] * Len(dataPoints) > SumPrices(dataPoints))
                  <=> (dataPoints[1] * Len(dataPoints) > SumPrices(dataPoints))

\* a series of several points that never crosses its mean
C17_Witness ==
    /\ CandlesArrived
    /\ Len(dataPoints) >= 2
    /\ mcp = NoMcp
    /\ res.status = 404

\* the timestamps of the pivot candidates of a series
CandidateTimes(pts) ==
    {Candidates(pts)[k].timestamp : k \in 1..Len(Candidates(pts))}

\* C18 (as claimed): on the scenario series the candidates are the points at
\* t2 and t3 (the third and fourth point), and the pivot is the one of them
\* with strictly more connections.
C18_ScenarioTwoCandidates ==
    (CandlesArrived /\ dataPoints = Scenario)
    => /\ CandidateTimes(dataPoints) = {3, 4}
       /\ mcp.timestamp \in {3, 4}
       /\ \A i \in {3, 4} \ {mcp.timestamp} :
             Touches(dataPoints, i) < mcp.connections

\* C18 (amended): on the scenario series (mean 100.5) every point after t0
\* flips the above-average flag, so the candidates are the points at t1, t2,
\* t3, t4 and t5; calculateMCP returns the one at t4 (price 100), which has 2
\* connections (t0 and t4), strictly more than each other candidate (1).
C18_ScenarioFiveCandidates ==
    (CandlesArrived /\ dataPoints = Scenario)
    => /\ CandidateTimes(dataPoints) = {2, 3, 4, 5, 6}
       /\ mcp = [timestamp |-> 5, price |-> 100, connections |-> 2]
       /\ \A i \in {2, 3, 4, 6} : Touches(dataPoints, i) = 1

C18_Witness ==
    /\ CandlesArrived
    /\ dataPoints = Scenario
    /\ mcp # NoMcp
    /\ pc = "quote"

\* ======================= claims about the strategy decision ==============
\* the quote has arrived and the handler has made its decision
Decided == currentPrice # Absent

\* |currentPrice - mcp.price| / mcp.price, in thousandths of the (positive)
\* pivot price: Deviation1000 compared with 5 * mcp.price is the deviation
\* compared with 0.005
Deviation1000 == 1000 * Abs(currentPrice - mcp.price)

\* C19: with a deviation above 0.005 the decision is HOLD: no action, no
\* order price, no quantity, no placeOrder call, and the response says HOLD
\* without an order; with a deviation of exactly 0.005 the decision is not
\* HOLD.
C19_FarFromPivotHolds ==
    Decided
    => /\ Deviation1000 > 5 * mcp.price
          => /\ action = NoAction
             /\ orderPrice = Absent
             /\ quantity = Absent
             /\ \A k \in 1..Len(calls) : calls[k] # "placeOrder"
             /\ pc = "done"
             /\ res = [status |-> 200, action |-> "HOLD", order |-> FALSE]
       /\ Deviation1000 = 5 * mcp.price
          => /\ action \in {"BUY", "SELL"}
             /\ res.action # "HOLD"

\* a price just beyond the band: pivot 1000, last price 1006
C19_Witness ==
    /\ Decided
    /\ mcp.price = 1000
    /\ currentPrice = 1006
    /\ res.action = "HOLD"
    /\ pc = "done"

\* the last ten points of a series, or all of them when there are fewer
LastTen(pts) ==
    [k \in 1..(IF Len(pts) < 10 THEN Len(pts) ELSE 10) |->
        pts[Len(pts) - (IF Len(pts) < 10 THEN Len(pts) ELSE 10) + k]]

\* C20: with a deviation of at most 0.005 the action is BUY when currentPrice
\* is greater than the mean of the last ten points of the series (of all
\* points when there are fewer than ten) and SELL otherwise, equality
\* included; orderPrice is currentPrice.
C20_BuyAboveRecentMean ==
    (Decided /\ Deviation1000 <= 5 * mcp.price)
    => /\ action = IF currentPrice * Len(LastTen(dataPoints))
                        > SumPrices(LastTen(dataPoints))
                   THEN "BUY" ELSE "SELL"
       /\ orderPrice = currentPrice

\* a series of more than ten points, the price equal to the mean of the last
\* ten and above the mean of the whole series: SELL
C20_Witness ==
    /\ Decided
    /\ Len(dataPoints) > 10
    /\ action = "SELL"
    /\ currentPrice * 10 = SumPrices(LastTen(dataPoints))
    /\ currentPrice * Len(dataPoints) > SumPrices(dataPoints)

\* C21: for a BUY or SELL decision the quantity is
\* floor(investmentAmount / currentPrice) (100000 and 17870 give 5); when it
\* is less than 1 the request is answered 400 ("investment amount too
\* small") and placeOrder is not called, so every order the handler sends
\* has a quantity of at least 1.
C21_QuantityFloor ==
    (Decided /\ action \in {"BUY", "SELL"})
    => /\ quantity * currentPrice <= investmentAmount
       /\ investmentAmount < (quantity + 1) * currentPrice
       /\ (investmentAmount = 100000 /\ currentPrice = 17870) => quantity = 5
       /\ quantity < 1
            => /\ pc = "done"
               /\ res = ErrorResponse(400)
               /\ \A k \in 1..Len(calls) : calls[k] # "placeOrder"
       /\ (\E k \in 1..Len(calls) : calls[k] = "placeOrder") => quantity >= 1

\* the quantity scenario, with the order sent
C21_Witness ==
    /\ Decided
    /\ investmentAmount = 100000
    /\ currentPrice = 17870
    /\ quantity = 5
    /\ pc = "order"

\* a decision whose quantity is 0 is answered 400
C21_ZeroWitness ==
    /\ Decided
    /\ action \in {"BUY", "SELL"}
    /\ quantity = 0
    /\ res = ErrorResponse(400)

\* ======================= claims about the batch calculation ==============
\* C22: within one batch request the symbols are fetched strictly one after
\* the other, in the order given: at most one candle fetch is awaited at any
\* time, the fetches are issued for symbols 1, 2, 3, ... in that order, and
\* a symbol is fetched only when the result of the symbol before it is in.
C22_BatchSequential ==
    /\ Cardinality(fetching) <= 1
    /\ \A k \in 1..Len(fetches) : fetches[k] = k
    /\ \A k \in 2..Len(fetches) : (fetches[k] - 1) \in DOMAIN results
    /\ \A i \in fetching : i \notin DOMAIN results

\* the second symbol is being fetched, the first one has its result
C22_Witness ==
    /\ symbols >= 2
    /\ fetching = {2}
    /\ fetches = <<1, 2>>
    /\ DOMAIN results = {1}
    /\ batchRes = 0

\* ======================= claims about the client ==========================
\* C23 (as claimed): after a 401 the client asks for a login and, once the
\* login is verified, sends the original request again exactly once: one call
\* of callMCPServer sends the request at most twice, also when the second
\* answer is 401 again.
C23_RetryAtMostOnce == attempts <= 2

\* ======================= claims about malformed input =====================
\* C24 (as claimed): a series that contains a zero or negative price is
\* rejected: the batch handler stores no pivot for its symbol.
C24_InvalidInputRejected ==
    \A i \in DOMAIN results :
        (\E j \in 1..Len(candles[i]) : candles[i][j] <= 0) => results[i] = NoMcp

\* ======================= claims about logout ==============================
\* C25 (as claimed): once /logout has answered, no copy of the access token is
\* left in the process, the one held by the SDK client included.
C25_LogoutClearsClient ==
    last.route = "logout" => (authState.accessToken = Absent /\ upstoxClient = Absent)

\* ======================= claims about the candidates ======================
\* C26: the connection count of every candidate is the number of points of the
\* whole series within 0.1% of the candidate's price, the bound included; with
\* positive prices the candidate's own point is one of them, so every
\* candidate, and the pivot returned, has between 1 and Len(series)
\* connections.
C26_ConnectionCount ==
    CandlesArrived
    => /\ \A k \in 1..Len(Candidates(dataPoints)) :
             LET c == Candidates(dataPoints)[k]
             IN  /\ c.connections =
                       Cardinality({j \in 1..Len(dataPoints) :
                           1000 * Abs(c.price - dataPoints[j]) <= c.price})
                 /\ 1000 * Abs(c.price - dataPoints[c.timestamp]) <= c.price
                 /\ 1 <= c.connections
                 /\ c.connections <= Len(dataPoints)
       /\ mcp # NoMcp => (1 <= mcp.connections /\ mcp.connections <= Len(dataPoints))

\* the pivot has a point exactly 0.1% below its price, and that point counts
C26_Witness ==
    /\ CandlesArrived
    /\ mcp.price = 1000
    /\ \E j \in 1..Len(dataPoints) : dataPoints[j] = 999
    /\ mcp.connections =
          Cardinality({j \in 1..Len(dataPoints) : dataPoints[j] \in {999, 1000, 1001}})
    /\ mcp.connections >= 2

\* all the prices of a series are equal
Flat(pts) == \A i \in 1..Len(pts) : pts[i] = pts[1]

\* C27: a point is above average only when its price is strictly greater than
\* the mean, so a point on the mean is below; a point is a candidate exactly
\* when it is above and the point before it is below or the reverse; a flat
\* series has no candidate and yields none.
C27_StrictCrossings ==
    CandlesArrived
    => /\ CandidateTimes(dataPoints) = MeanCrossings(dataPoints)
       /\ \A i \in 2..Len(dataPoints) :
             dataPoints[i] * Len(dataPoints) = SumPrices(dataPoints)
             => (i \in CandidateTimes(dataPoints)
                   <=> dataPoints[i - 1] * Len(dataPoints) > SumPrices(dataPoints))
       /\ Flat(dataPoints) => (CandidateTimes(dataPoints) = {} /\ mcp = NoMcp)

\* a point on the mean follows a point above it and is a candidate
C27_Witness ==
    /\ CandlesArrived
    /\ \E i \in 2..Len(dataPoints) :
          /\ dataPoints[i] * Len(dataPoints) = SumPrices(dataPoints)
          /\ dataPoints[i - 1] * Len(dataPoints) > SumPrices(dataPoints)
          /\ i \in CandidateTimes(dataPoints)

\* a flat series of several points is answered 404
C27_FlatWitness ==
    /\ CandlesArrived
    /\ Len(dataPoints) >= 2
    /\ Flat(dataPoints)
    /\ mcp = NoMcp
    /\ res.status = 404

\* ======================= claims about token rotation ======================
\* C28 (as claimed): once every refresh exchange in flight has completed, the
\* stored refresh token, in memory and in the token file, is the one the
\* authorization server issued last.
C28_StoredIsLatest ==
    req = EmptyBag =>
       /\ authState.refreshToken = RefreshTok(issued)
       /\ tokenFile.data.refreshToken = RefreshTok(issued)

\* ======================= claims about races with logout ===================
\* C29 (as claimed): from the moment /logout has run until a /callback
\* exchange succeeds, the token state and the token file stay empty, also when
\* a refresh that was in flight at the logout completes afterwards.
C29_LogoutFinalUnderRace ==
    loggedOut =>
       /\ authState = NullAuth
       /\ ~authState.isAuthenticated
       /\ tokenFile = EmptyFile

\* C30 (as claimed): after /logout has run, the batch handler that passed
\* requireAuth before the logout issues no further candle fetch.
C30_NoCallAfterLogout == [][loggedOut => fetches' = fetches]_vars

\* ======================= claims about the SDK client ======================
\* C31: whenever ensureValidToken returns true, on the fast path or after a
\* refresh, the access token set on the SDK client is the accessToken of
\* authState; the same holds in every state in which the fast path would be
\* taken, whatever startup loads, logins, refreshes, logouts and restarts
\* came before.
C31_ClientTokenCurrent ==
    /\ (last.next /\ last.auth \in {"fast", "refreshed"})
          => (authState.accessToken # Absent /\ upstoxClient = authState.accessToken)
    /\ ensureValidToken(authState, now) = "fast"
          => upstoxClient = authState.accessToken

\* ensureValidToken has returned true on the fast path after the clock moved
C31_Witness ==
    /\ last = CallNext("fast")
    /\ now > 0
    /\ authState.accessToken # Absent
    /\ upstoxClient = authState.accessToken

\* ======================= claims about the command-line client =============
\* C32 (as claimed): when the server answered the most recent authentication
\* check with 401, the flag isAuthenticated is false at the menu, and the
\* gated operations chosen there issue no server call.
C32_FlagFollowsProbe ==
    (cliPc = "menu" /\ cliProbe = 401) => ~cliAuthenticated

OrdersSent == {k \in 1..Len(calls) : calls[k] = "placeOrder"}

\* C34: one run calls placeOrder at most once, as its third and last SDK
\* call after the candle fetch and the quote fetch, with a pivot found, the
\* deviation at most 0.005 and the quantity at least 1; the order's side is
\* the decided action (BUY above the mean of the last ten points, else
\* SELL), its price is currentPrice and its quantity is
\* floor(investmentAmount / currentPrice); a response with an order reports
\* that action.
C34_OneOrderAfterDecision ==
    /\ Cardinality(OrdersSent) <= 1
    /\ OrdersSent # {}
          => /\ calls = <<"getHistoricalCandleData", "getMarketQuoteOHLC", "placeOrder">>
             /\ pc \in {"order", "done"}
             /\ mcp # NoMcp
             /\ mcp = calculateMCP(dataPoints)
             /\ Deviation1000 <= 5 * mcp.price
             /\ quantity >= 1
             /\ action \in {"BUY", "SELL"}
             /\ action = "BUY" <=>
                   currentPrice * Len(LastTen(dataPoints)) > SumPrices(LastTen(dataPoints))
             /\ orderPrice = currentPrice
             /\ quantity * currentPrice <= investmentAmount
             /\ investmentAmount < (quantity + 1) * currentPrice
    /\ res.order => (OrdersSent # {} /\ res.status = 200 /\ res.action = action)

\* an order has been placed and answered
C34_Witness ==
    /\ pc = "done"
    /\ res.order
    /\ res.action = "SELL"
    /\ calls = <<"getHistoricalCandleData", "getMarketQuoteOHLC", "placeOrder">>
    /\ quantity >= 2
    /\ orderPrice = currentPrice

=============================================================================
